---- MODULE Spec2Model ----
(***************************************************************************)
(* bulbs-tui: a fleet controller for network-attached light bulbs.         *)
(*                                                                         *)
(* Strings are sequences of one-character strings, so that push, pop,      *)
(* strip_prefix, len and is_empty are computed as the code computes them.  *)
(* An f32 brightness is an integer count of units of 2^-24 (the spacing of *)
(* f32 in [0.5, 1)), so 1.0 is 16777216 and f32::EPSILON is 2 units.       *)
(*                                                                         *)
(* Every HTTP exchange has an outcome chosen by the environment: a         *)
(* transport failure, a non-2xx status, or a 2xx response with a body.     *)
(*                                                                         *)
(* Three specifications share the variables:                               *)
(*   SpecApi    one call of a Device or Devices method on any list;        *)
(*   Spec       run_tui under the keys that manage the fleet (the list,    *)
(*              the add form, discovery, the log pane);                    *)
(*   SpecCalls  run_tui under the keys that reach a controller (refresh,   *)
(*              toggles, discovery, add confirm, the settings form).       *)
(* App.log_horizontal_offset, which only shifts the rendered log, is not   *)
(* part of the state.                                                      *)
(***************************************************************************)
EXTENDS Integers, Sequences, FiniteSets, TLC

VARIABLES
    bulbs,                  \* Devices.bulbs: Vec<Device>
    logs,                   \* App.logs: Vec<String>
    current_device_index,   \* App.current_device_index (0-based, usize)
    current_widget,         \* App.current_widget
    currently_adding,       \* App.currently_adding: Option<CurrentlyAdding>
    currently_setting,      \* App.currently_setting: Option<CurrentlySetting>
    ip_input,               \* App.ip_input
    name_input,             \* App.name_input
    color_input,            \* App.color_input
    brightness_input,       \* App.brightness_input
    pc,                     \* run_tui: "start", "loop", "quit", "failed", "panic"
    saved,                  \* what the config file holds
    op,                     \* the handler or method that ran last, with its arguments
    pre,                    \* Devices.bulbs as that run found it
    reqs,                   \* the HTTP exchanges of that run, in order
    res,                    \* its result
    buf,                    \* discover_bulbs: the receive buffer
    devices,                \* discover_bulbs: the addresses collected
    rcvd,                   \* the datagrams recv_from delivered, in arrival order
    dpc,                    \* discover_bulbs: "idle", "recv", "done"
    elapsed,                \* discover_bulbs: the time since the ping was sent
    cli                     \* Cli::run: the options, the position, the status text

vars == <<bulbs, logs, current_device_index, current_widget, currently_adding,
          currently_setting, ip_input, name_input, color_input, brightness_input,
          pc, saved, op, pre, reqs, res, buf, devices, rcvd, dpc, elapsed, cli>>

sockVars == <<buf, devices, rcvd, dpc, elapsed>>

appVars == <<logs, current_device_index, current_widget, currently_adding,
             currently_setting, ip_input, name_input, color_input,
             brightness_input, pc, saved>>

-----------------------------------------------------------------------------
(* Bounds and input sets *)

MaxDevices == 3
MaxIpLen == 1

IpChars == {"1", "2"}

RECURSIVE StringsUpTo(_, _)
StringsUpTo(chars, n) ==
    IF n = 0 THEN {<<>>}
    ELSE LET shorter == StringsUpTo(chars, n - 1)
         IN  shorter \cup {Append(s, c) : s \in shorter, c \in chars}

Addrs == StringsUpTo(IpChars, MaxIpLen) \ {<<>>}

None == [some |-> FALSE]
Some(v) == [some |-> TRUE, val |-> v]

Ok(v) == [ok |-> TRUE, val |-> v]
Err(kind, ip) == [ok |-> FALSE, err |-> kind, ip |-> ip]

-----------------------------------------------------------------------------
(* Bulb and Device: api.rs *)

default_brightness == 16777216

default_color == <<"#", "F", "F", "F", "F", "F", "F">>

HalfBrightness == default_brightness \div 2

Red == <<"#", "F", "F", "0", "0", "0", "0">>

\* Bulb::default(), the derived Default: 0.0, "", 0
BulbDefault == [brightness |-> 0, color |-> <<>>, enabled |-> 0]

DeviceNewUnselected(ip, name) ==
    [bulb |-> BulbDefault, ip |-> ip, name |-> name, selected |-> FALSE]

\* Device::new
DeviceNew(ip, name) ==
    [bulb |-> BulbDefault, ip |-> ip, name |-> name, selected |-> TRUE]

\* Response bodies of GET /led. A JSON object is a record of the keys it
\* holds; NotJson is a body serde_json rejects.
NotJson == [garbage |-> TRUE]

JsonBodies ==
    { [brightness |-> HalfBrightness, color |-> Red, on |-> 1],
      [color |-> default_color, enabled |-> 2],
      [brightness |-> HalfBrightness] }

Bodies == JsonBodies \cup {NotJson}

\* serde_json::from_str::<Bulb>: absent keys take the serde defaults, "on" is
\* an alias of "enabled"
Decodable(body) == "garbage" \notin DOMAIN body

from_str(body) ==
    [brightness |-> IF "brightness" \in DOMAIN body THEN body.brightness
                    ELSE default_brightness,
     color      |-> IF "color" \in DOMAIN body THEN body.color ELSE default_color,
     enabled    |-> IF "enabled" \in DOMAIN body THEN body.enabled
                    ELSE IF "on" \in DOMAIN body THEN body.on
                    ELSE 0]

\* What a call of the agent can come to
GetOutcomes == {[net |-> "transport"], [net |-> "status"]}
                   \cup {[net |-> "ok", body |-> b] : b \in Bodies}

PutOutcomes == {[net |-> "transport"], [net |-> "status"], [net |-> "ok"]}

Exchange(d, verb, arg, o) == [ip |-> d.ip, verb |-> verb, arg |-> arg, out |-> o]

\* str::strip_prefix('#').unwrap_or(color)
StripHash(color) ==
    IF Len(color) > 0 /\ Head(color) = "#" THEN Tail(color) ELSE color

\* Each Device method yields the device afterwards, the result, and the
\* exchange it made.
Device_get_status(d, o) ==
    LET x == Exchange(d, "status", <<>>, o)
    IN  IF o.net # "ok" THEN [dev |-> d, res |-> Err(o.net, d.ip), x |-> x]
        ELSE IF ~Decodable(o.body)
             THEN [dev |-> d, res |-> Err("decode", d.ip), x |-> x]
        ELSE [dev |-> [d EXCEPT !.bulb = from_str(o.body)],
              res |-> Ok(<<d.ip, o.body>>), x |-> x]

\* Device::on with the flag set before the request is acknowledged
Device_on_unacknowledged(d, o) ==
    LET x == Exchange(d, "on", <<>>, o)
    IN  [dev |-> [d EXCEPT !.bulb.enabled = 1],
         res |-> IF o.net # "ok" THEN Err(o.net, d.ip) ELSE Ok(<<>>), x |-> x]

Device_on(d, o) ==
    LET x == Exchange(d, "on", <<>>, o)
    IN  IF o.net # "ok" THEN [dev |-> d, res |-> Err(o.net, d.ip), x |-> x]
        ELSE [dev |-> [d EXCEPT !.bulb.enabled = 1], res |-> Ok(<<>>), x |-> x]

Device_off(d, o) ==
    LET x == Exchange(d, "off", <<>>, o)
    IN  IF o.net # "ok" THEN [dev |-> d, res |-> Err(o.net, d.ip), x |-> x]
        ELSE [dev |-> [d EXCEPT !.bulb.enabled = 0], res |-> Ok(<<>>), x |-> x]

Device_toggle(d, o) ==
    IF d.bulb.enabled = 1 THEN Device_off(d, o) ELSE Device_on(d, o)

Device_set_color(d, color, o) ==
    LET hex == StripHash(color)
        x == Exchange(d, "color", hex, o)
    IN  IF o.net # "ok" THEN [dev |-> d, res |-> Err(o.net, d.ip), x |-> x]
        ELSE [dev |-> [d EXCEPT !.bulb.color = <<"#">> \o hex],
              res |-> Ok(<<>>), x |-> x]

Device_set_brightness(d, brightness, o) ==
    LET x == Exchange(d, "brightness", brightness, o)
    IN  IF o.net # "ok" THEN [dev |-> d, res |-> Err(o.net, d.ip), x |-> x]
        ELSE [dev |-> [d EXCEPT !.bulb.brightness = brightness],
              res |-> Ok(<<>>), x |-> x]

-----------------------------------------------------------------------------
(* f32 and text: brightness_input.parse::<f32>() and f32::to_string(), on  *)
(* values counted in units of 2^-24. Exact for 0, for [0.5, 1] and for     *)
(* whole numbers below 128, which is where the values of this model lie.   *)

Digits == <<"0", "1", "2", "3", "4", "5", "6", "7", "8", "9">>

IsDigit(c) == \E k \in DOMAIN Digits : Digits[k] = c

DigitValue(c) == (CHOOSE k \in DOMAIN Digits : Digits[k] = c) - 1

RECURSIVE Pow10(_)
Pow10(n) == IF n = 0 THEN 1 ELSE 10 * Pow10(n - 1)

\* the number a string of digits spells
RECURSIVE Natural(_)
Natural(s) ==
    IF s = <<>> THEN 0
    ELSE 10 * Natural(SubSeq(s, 1, Len(s) - 1)) + DigitValue(s[Len(s)])

\* f / p (a fraction below 1) in units of 2^-k, as <<whole units, rest>>
RECURSIVE BinaryFraction(_, _, _, _)
BinaryFraction(f, p, k, acc) ==
    IF k = 0 THEN <<acc, f>>
    ELSE IF 2 * f >= p THEN BinaryFraction(2 * f - p, p, k - 1, 2 * acc + 1)
    ELSE BinaryFraction(2 * f, p, k - 1, 2 * acc)

\* round to nearest, ties to even
RoundedUnits(f, p) ==
    LET b == BinaryFraction(f, p, 24, 0)
    IN  IF 2 * b[2] > p \/ (2 * b[2] = p /\ b[1] % 2 = 1) THEN b[1] + 1 ELSE b[1]

\* str::parse::<f32> on strings of digits and '.': Ok(units) or the error
ParseF32(s) ==
    LET dots == {i \in DOMAIN s : s[i] = "."}
        dot == IF dots = {} THEN Len(s) + 1 ELSE CHOOSE i \in dots : TRUE
        whole == SubSeq(s, 1, dot - 1)
        frac == SubSeq(s, dot + 1, Len(s))
    IN  IF s = <<>> THEN [ok |-> FALSE, err |-> "cannot parse float from empty string"]
        ELSE IF \/ Cardinality(dots) > 1
                \/ \E i \in DOMAIN s : ~IsDigit(s[i]) /\ s[i] # "."
                \/ Len(whole) + Len(frac) = 0
             THEN [ok |-> FALSE, err |-> "invalid float literal"]
        ELSE Ok(Natural(whole) * default_brightness
                  + RoundedUnits(Natural(frac), Pow10(Len(frac))))

\* the decimal digits of a natural number
RECURSIVE Decimal(_)
Decimal(n) ==
    IF n < 10 THEN <<Digits[n + 1]>>
    ELSE Append(Decimal(n \div 10), Digits[(n % 10) + 1])

\* n written with exactly w digits
RECURSIVE Padded(_, _)
Padded(n, w) ==
    IF w = 0 THEN <<>> ELSE Append(Padded(n \div 10, w - 1), Digits[(n % 10) + 1])

\* u / 2^24 (below 1) rounded to n decimal places, as a natural number
RECURSIVE DecimalPlaces(_, _, _)
DecimalPlaces(u, n, acc) ==
    IF n = 0 THEN IF 2 * u >= default_brightness THEN acc + 1 ELSE acc
    ELSE DecimalPlaces((10 * u) % default_brightness, n - 1,
                       10 * acc + (10 * u) \div default_brightness)

\* f32::to_string: the shortest decimal that parses back to the same value
RECURSIVE Shortest(_, _, _)
Shortest(whole, u, n) ==
    LET d == DecimalPlaces(u, n, 0)
        text == Decimal(whole) \o <<".">> \o Padded(d, n)
    IN  IF n >= 9 \/ (d < Pow10(n) /\ ParseF32(text) = Ok(whole * default_brightness + u))
        THEN text
        ELSE Shortest(whole, u, n + 1)

to_string(b) ==
    IF b % default_brightness = 0 THEN Decimal(b \div default_brightness)
    ELSE Shortest(b \div default_brightness, b % default_brightness, 1)

-----------------------------------------------------------------------------
(* Devices: api.rs. Each method yields the list afterwards, the result and *)
(* the exchanges made. outs[i] is the outcome the i-th device's call meets  *)
(* if the loop reaches it (1-based here, 0-based in the code).              *)

\* Devices::add pushing the device whatever the fetch came to
Devices_add_unchecked(bs, ip, name, o) ==
    LET r == Device_get_status(DeviceNew(ip, name), o)
    IN  [bulbs |-> Append(bs, r.dev), res |-> r.res, reqs |-> <<r.x>>]

Devices_add(bs, ip, name, o) ==
    LET r == Device_get_status(DeviceNew(ip, name), o)
    IN  IF r.res.ok
        THEN [bulbs |-> Append(bs, r.dev), res |-> r.res, reqs |-> <<r.x>>]
        ELSE [bulbs |-> bs, res |-> r.res, reqs |-> <<r.x>>]

\* the loop of Devices::get_status going on after a failed fetch
RECURSIVE get_status_loop_best_effort(_, _, _, _, _)
get_status_loop_best_effort(bs, i, outs, resp, xs) ==
    IF i > Len(bs)
    THEN [bulbs |-> bs, reqs |-> xs,
          res |-> IF Len(resp) < Len(xs)
                  THEN Err("transport", xs[Len(xs)].ip)
                  ELSE IF resp = <<>> THEN Ok(None) ELSE Ok(Some(resp))]
    ELSE IF ~bs[i].selected
         THEN get_status_loop_best_effort(bs, i + 1, outs, resp, xs)
    ELSE LET r == Device_get_status(bs[i], outs[i])
         IN  get_status_loop_best_effort(
                 [bs EXCEPT ![i] = r.dev], i + 1, outs,
                 IF r.res.ok THEN Append(resp, r.res.val) ELSE resp,
                 Append(xs, r.x))

RECURSIVE get_status_loop(_, _, _, _, _)
get_status_loop(bs, i, outs, resp, xs) ==
    IF i > Len(bs)
    THEN [bulbs |-> bs, reqs |-> xs,
          res |-> IF resp = <<>> THEN Ok(None) ELSE Ok(Some(resp))]
    ELSE IF ~bs[i].selected THEN get_status_loop(bs, i + 1, outs, resp, xs)
    ELSE LET r == Device_get_status(bs[i], outs[i])
         IN  IF r.res.ok
             THEN get_status_loop([bs EXCEPT ![i] = r.dev], i + 1, outs,
                                  Append(resp, r.res.val), Append(xs, r.x))
             ELSE [bulbs |-> bs, reqs |-> Append(xs, r.x), res |-> r.res]

Devices_get_status(bs, outs) == get_status_loop(bs, 1, outs, <<>>, <<>>)

RECURSIVE on_loop(_, _, _, _)
on_loop(bs, i, outs, xs) ==
    IF i > Len(bs) THEN [bulbs |-> bs, reqs |-> xs, res |-> Ok(<<>>)]
    ELSE IF ~bs[i].selected THEN on_loop(bs, i + 1, outs, xs)
    ELSE LET r == Device_on(bs[i], outs[i])
         IN  IF r.res.ok
             THEN on_loop([bs EXCEPT ![i] = r.dev], i + 1, outs, Append(xs, r.x))
             ELSE [bulbs |-> bs, reqs |-> Append(xs, r.x), res |-> r.res]

Devices_on(bs, outs) == on_loop(bs, 1, outs, <<>>)

RECURSIVE off_loop(_, _, _, _)
off_loop(bs, i, outs, xs) ==
    IF i > Len(bs) THEN [bulbs |-> bs, reqs |-> xs, res |-> Ok(<<>>)]
    ELSE IF ~bs[i].selected THEN off_loop(bs, i + 1, outs, xs)
    ELSE LET r == Device_off(bs[i], outs[i])
         IN  IF r.res.ok
             THEN off_loop([bs EXCEPT ![i] = r.dev], i + 1, outs, Append(xs, r.x))
             ELSE [bulbs |-> bs, reqs |-> Append(xs, r.x), res |-> r.res]

\* off sent to every device, selected or not
Devices_off_all(bs, outs) ==
    [bulbs |-> [i \in DOMAIN bs |-> Device_off(bs[i], outs[i]).dev],
     reqs |-> [i \in DOMAIN bs |-> Device_off(bs[i], outs[i]).x],
     res |-> Ok(<<>>)]

Devices_off(bs, outs) == off_loop(bs, 1, outs, <<>>)

\* the reference of Devices::toggle taken from the first device, selected or not
first_is_enabled_of_any(bs, i) ==
    IF i > Len(bs) THEN 0 ELSE bs[i].bulb.enabled

\* the loop of Devices::toggle that looks for the first selected device
RECURSIVE first_is_enabled(_, _)
first_is_enabled(bs, i) ==
    IF i > Len(bs) THEN 0
    ELSE IF bs[i].selected THEN bs[i].bulb.enabled
    ELSE first_is_enabled(bs, i + 1)

Devices_toggle(bs, outs) ==
    IF first_is_enabled(bs, 1) = 1 THEN Devices_off(bs, outs)
    ELSE Devices_on(bs, outs)

\* index is 0-based, as in the code; out of range, the indexing panics
Devices_toggle_one(bs, index, o) ==
    LET r == Device_toggle(bs[index + 1], o)
    IN  [bulbs |-> [bs EXCEPT ![index + 1] = r.dev], reqs |-> <<r.x>>,
         res |-> r.res]

RECURSIVE set_color_loop(_, _, _, _, _)
set_color_loop(bs, i, color, outs, xs) ==
    IF i > Len(bs) THEN [bulbs |-> bs, reqs |-> xs, res |-> Ok(<<>>)]
    ELSE IF ~bs[i].selected THEN set_color_loop(bs, i + 1, color, outs, xs)
    ELSE LET r == Device_set_color(bs[i], color, outs[i])
         IN  IF r.res.ok
             THEN set_color_loop([bs EXCEPT ![i] = r.dev], i + 1, color, outs,
                                 Append(xs, r.x))
             ELSE [bulbs |-> bs, reqs |-> Append(xs, r.x), res |-> r.res]

Devices_set_color(bs, color, outs) == set_color_loop(bs, 1, color, outs, <<>>)

\* the loop of Devices::set_brightness going on after a failed request
RECURSIVE set_brightness_loop_best_effort(_, _, _, _, _)
set_brightness_loop_best_effort(bs, i, brightness, outs, xs) ==
    IF i > Len(bs)
    THEN [bulbs |-> bs, reqs |-> xs,
          res |-> IF \E k \in DOMAIN xs : xs[k].out.net # "ok"
                  THEN LET k == CHOOSE k \in DOMAIN xs : xs[k].out.net # "ok"
                       IN  Err(xs[k].out.net, xs[k].ip)
                  ELSE Ok(<<>>)]
    ELSE IF ~bs[i].selected
         THEN set_brightness_loop_best_effort(bs, i + 1, brightness, outs, xs)
    ELSE LET r == Device_set_brightness(bs[i], brightness, outs[i])
         IN  set_brightness_loop_best_effort([bs EXCEPT ![i] = r.dev], i + 1,
                                             brightness, outs, Append(xs, r.x))

RECURSIVE set_brightness_loop(_, _, _, _, _)
set_brightness_loop(bs, i, brightness, outs, xs) ==
    IF i > Len(bs) THEN [bulbs |-> bs, reqs |-> xs, res |-> Ok(<<>>)]
    ELSE IF ~bs[i].selected
         THEN set_brightness_loop(bs, i + 1, brightness, outs, xs)
    ELSE LET r == Device_set_brightness(bs[i], brightness, outs[i])
         IN  IF r.res.ok
             THEN set_brightness_loop([bs EXCEPT ![i] = r.dev], i + 1,
                                      brightness, outs, Append(xs, r.x))
             ELSE [bulbs |-> bs, reqs |-> Append(xs, r.x), res |-> r.res]

Devices_set_brightness(bs, brightness, outs) ==
    set_brightness_loop(bs, 1, brightness, outs, <<>>)

-----------------------------------------------------------------------------
(* The library used directly: one call of a public method of Devices, or   *)
(* of one of its devices, on a Devices value loaded from a config file     *)
(* (app.rs load_devices), with each exchange's outcome chosen freely.      *)

\* a colour argument is any string of the caller: one with the '#', one
\* without it, and one that is not six hexadecimal digits long
ColorArgs == {Red, StripHash(default_color), <<"F">>}

BrightnessArgs == {HalfBrightness, default_brightness}

\* Devices a config file can hold (Device and Bulb derive Deserialize, and
\* every field is written back on save)
ConfigDevices ==
    { [bulb |-> from_str(b), ip |-> ip, name |-> <<>>, selected |-> sel] :
        b \in JsonBodies, ip \in Addrs, sel \in BOOLEAN }

RECURSIVE SeqsUpTo(_, _)
SeqsUpTo(S, n) ==
    IF n = 0 THEN {<<>>}
    ELSE LET shorter == SeqsUpTo(S, n - 1)
         IN  shorter \cup {Append(s, e) : s \in shorter, e \in S}

\* App::new
AppInit ==
    /\ logs = <<>>
    /\ current_device_index = 0
    /\ current_widget = "Devices"
    /\ currently_adding = None
    /\ currently_setting = None
    /\ ip_input = <<>>
    /\ name_input = <<>>
    /\ color_input = <<>>
    /\ brightness_input = <<>>
    /\ pc = "start"
    /\ saved = None
    /\ op = [name |-> "new"]
    /\ buf = <<>>
    /\ devices = <<>>
    /\ rcvd = <<>>
    /\ dpc = "idle"
    /\ elapsed = 0
    /\ cli = [at |-> "idle"]
    /\ pre = bulbs
    /\ reqs = <<>>
    /\ res = Ok(<<>>)

InitApi ==
    /\ bulbs \in SeqsUpTo(ConfigDevices, MaxDevices)
    /\ AppInit

Done(name, r) ==
    /\ op.name = "new"
    /\ bulbs' = r.bulbs
    /\ pre' = bulbs
    /\ reqs' = r.reqs
    /\ res' = r.res
    /\ op' = name
    /\ UNCHANGED <<appVars, sockVars, cli>>

DeviceDone(name, i, r) ==
    Done([name |-> name, i |-> i],
         [bulbs |-> [bulbs EXCEPT ![i] = r.dev], reqs |-> <<r.x>>, res |-> r.res])

CallDeviceGetStatus ==
    \E i \in DOMAIN bulbs, o \in GetOutcomes :
        DeviceDone("Device::get_status", i, Device_get_status(bulbs[i], o))

CallDeviceOn ==
    \E i \in DOMAIN bulbs, o \in PutOutcomes :
        DeviceDone("Device::on", i, Device_on(bulbs[i], o))

CallDeviceOff ==
    \E i \in DOMAIN bulbs, o \in PutOutcomes :
        DeviceDone("Device::off", i, Device_off(bulbs[i], o))

CallDeviceToggle ==
    \E i \in DOMAIN bulbs, o \in PutOutcomes :
        DeviceDone("Device::toggle", i, Device_toggle(bulbs[i], o))

CallDeviceSetColor ==
    \E i \in DOMAIN bulbs, c \in ColorArgs, o \in PutOutcomes :
        DeviceDone("Device::set_color", i, Device_set_color(bulbs[i], c, o))

CallDeviceSetBrightness ==
    \E i \in DOMAIN bulbs, b \in BrightnessArgs, o \in PutOutcomes :
        DeviceDone("Device::set_brightness", i,
                   Device_set_brightness(bulbs[i], b, o))

CallAdd ==
    \E ip \in Addrs, o \in GetOutcomes :
        Done([name |-> "Devices::add", ip |-> ip],
             Devices_add(bulbs, ip, <<>>, o))

CallGetStatus ==
    \E outs \in [DOMAIN bulbs -> GetOutcomes] :
        Done([name |-> "Devices::get_status"], Devices_get_status(bulbs, outs))

CallOn ==
    \E outs \in [DOMAIN bulbs -> PutOutcomes] :
        Done([name |-> "Devices::on"], Devices_on(bulbs, outs))

CallOff ==
    \E outs \in [DOMAIN bulbs -> PutOutcomes] :
        Done([name |-> "Devices::off"], Devices_off(bulbs, outs))

CallToggle ==
    \E outs \in [DOMAIN bulbs -> PutOutcomes] :
        Done([name |-> "Devices::toggle"], Devices_toggle(bulbs, outs))

CallToggleOne ==
    \E index \in 0 .. Len(bulbs) - 1, o \in PutOutcomes :
        Done([name |-> "Devices::toggle_one", i |-> index + 1],
             Devices_toggle_one(bulbs, index, o))

CallSetColor ==
    \E c \in ColorArgs, outs \in [DOMAIN bulbs -> PutOutcomes] :
        Done([name |-> "Devices::set_color", color |-> c],
             Devices_set_color(bulbs, c, outs))

CallSetBrightness ==
    \E b \in BrightnessArgs, outs \in [DOMAIN bulbs -> PutOutcomes] :
        Done([name |-> "Devices::set_brightness", brightness |-> b],
             Devices_set_brightness(bulbs, b, outs))

NextApi ==
    \/ CallDeviceGetStatus
    \/ CallDeviceOn
    \/ CallDeviceOff
    \/ CallDeviceToggle
    \/ CallDeviceSetColor
    \/ CallDeviceSetBrightness
    \/ CallAdd
    \/ CallGetStatus
    \/ CallOn
    \/ CallOff
    \/ CallToggle
    \/ CallToggleOne
    \/ CallSetColor
    \/ CallSetBrightness

SpecApi == InitApi /\ [][NextApi]_vars

-----------------------------------------------------------------------------
(* Two calls of Device::toggle in a row on one device of the list *)

\* the first call; pre keeps the list as it was before it
ToggleOnce ==
    /\ op.name = "new"
    /\ \E i \in DOMAIN bulbs, o \in PutOutcomes :
       \E r \in {Device_toggle(bulbs[i], o)} :
           /\ bulbs' = [bulbs EXCEPT ![i] = r.dev]
           /\ reqs' = <<r.x>>
           /\ res' = r.res
           /\ op' = [name |-> "Device::toggle", i |-> i, calls |-> 1]
    /\ pre' = bulbs
    /\ UNCHANGED <<appVars, sockVars, cli>>

\* the second call, made after the first returned Ok
ToggleAgain ==
    /\ op.name = "Device::toggle"
    /\ op.calls = 1
    /\ res.ok
    /\ \E o \in PutOutcomes :
       \E r \in {Device_toggle(bulbs[op.i], o)} :
           /\ bulbs' = [bulbs EXCEPT ![op.i] = r.dev]
           /\ reqs' = Append(reqs, r.x)
           /\ res' = r.res
    /\ op' = [op EXCEPT !.calls = 2]
    /\ UNCHANGED <<pre, appVars, sockVars, cli>>

NextToggle ==
    \/ ToggleOnce
    \/ ToggleAgain

SpecToggle == InitApi /\ [][NextToggle]_vars

-----------------------------------------------------------------------------
(* discover_bulbs: api.rs. One step per call of recv_from; the network      *)
(* chooses the sender and the payload of every datagram.                    *)

MaxDatagrams == 3

BULBS_PING ==
    <<"b", "u", "l", "b", "s", "c", "l", "i", "e", "n", "t", "p", "i", "n", "g", "0">>

BULBS_PONG ==
    <<"b", "u", "l", "b", "s", "s", "e", "r", "v", "e", "r", "p", "o", "n", "g", "0">>

\* [0; BULBS_PONG.len()]
ZeroBuf == [k \in 1 .. Len(BULBS_PONG) |-> "NUL"]

\* payloads a datagram can carry: the pong, a pong cut short by one byte, the
\* empty payload, a pong with its last byte changed, a pong with one byte
\* more, and the ping itself
Payloads ==
    { BULBS_PONG,
      SubSeq(BULBS_PONG, 1, Len(BULBS_PONG) - 1),
      <<>>,
      [BULBS_PONG EXCEPT ![Len(BULBS_PONG)] = "1"],
      BULBS_PONG \o <<"0">>,
      BULBS_PING }

\* UdpSocket::recv_from(&mut buf): the payload is copied to the front of the
\* buffer, bytes that do not fit are dropped, bytes behind it stay
recv_from(b, payload) ==
    [k \in 1 .. Len(b) |-> IF k <= Len(payload) THEN payload[k] ELSE b[k]]

\* the Ok arm pushing an address only if the result does not hold it yet
received_unique(b, devs, from, payload) ==
    LET filled == recv_from(b, payload)
        fresh == \A k \in DOMAIN devs : devs[k] # from
    IN  [buf |-> filled,
         devices |-> IF filled = BULBS_PONG /\ fresh THEN Append(devs, from) ELSE devs,
         pushed |-> filled = BULBS_PONG /\ fresh]

\* the Ok arm of the match on recv_from
received(b, devs, from, payload) ==
    LET filled == recv_from(b, payload)
    IN  [buf |-> filled,
         devices |-> IF filled = BULBS_PONG THEN Append(devs, from) ELSE devs,
         pushed |-> filled = BULBS_PONG]

\* the timeout the caller gives, in ticks of the clock
Timeout == 2

\* the clock after a call of recv_from that blocked for wait ticks: the read
\* timeout of the socket is counted from the start of each call
blocked(clock, wait) == clock + wait

InitDiscover ==
    /\ bulbs = <<>>
    /\ AppInit

\* bind, the socket options and the broadcast of the ping all succeed
Setup ==
    /\ dpc = "idle"
    /\ dpc' = "recv"
    /\ buf' = ZeroBuf
    /\ devices' = <<>>
    /\ rcvd' = <<>>
    /\ elapsed' = 0
    /\ op' = [name |-> "discover_bulbs"]
    /\ UNCHANGED <<bulbs, appVars, cli, pre, reqs, res>>

\* one of them fails: the ? returns the error
SetupFailure ==
    /\ dpc = "idle"
    /\ dpc' = "done"
    /\ op' = [name |-> "discover_bulbs", end |-> "setup"]
    /\ res' = Err("io", <<>>)
    /\ UNCHANGED <<bulbs, appVars, cli, pre, reqs, buf, devices, rcvd, elapsed>>

\* recv_from returns a datagram: it arrived before the read timeout, counted
\* from this call of recv_from, ran out
Receive ==
    /\ dpc = "recv"
    /\ Len(rcvd) < MaxDatagrams
    /\ \E wait \in 0 .. Timeout - 1 : elapsed' = blocked(elapsed, wait)
    /\ \E from \in Addrs, payload \in Payloads :
       \E r \in {received(buf, devices, from, payload)} :
           /\ buf' = r.buf
           /\ devices' = r.devices
           /\ rcvd' = Append(rcvd, [from |-> from, payload |-> payload,
                                    pushed |-> r.pushed])
    /\ UNCHANGED <<bulbs, appVars, cli, op, pre, reqs, res, dpc>>

\* recv_from fails with ErrorKind::WouldBlock: nothing arrived for the whole
\* read timeout of this call
ReceiveTimeout ==
    /\ dpc = "recv"
    /\ dpc' = "done"
    /\ elapsed' = blocked(elapsed, Timeout)
    /\ op' = [name |-> "discover_bulbs", end |-> "timeout"]
    /\ res' = Ok(devices)
    /\ UNCHANGED <<bulbs, appVars, cli, pre, reqs, buf, devices, rcvd>>

\* recv_from fails with any other error
ReceiveError ==
    /\ dpc = "recv"
    /\ dpc' = "done"
    /\ \E wait \in 0 .. Timeout - 1 : elapsed' = blocked(elapsed, wait)
    /\ op' = [name |-> "discover_bulbs", end |-> "error"]
    /\ res' = Err("io", <<>>)
    /\ UNCHANGED <<bulbs, appVars, cli, pre, reqs, buf, devices, rcvd>>

NextDiscover ==
    \/ Setup
    \/ SetupFailure
    \/ Receive
    \/ ReceiveTimeout
    \/ ReceiveError

SpecDiscover == InitDiscover /\ [][NextDiscover]_vars

-----------------------------------------------------------------------------
(* App: app.rs. Each handler is an operator from the fields it reads to    *)
(* the fields it writes; lines are the log lines it appends, in order.     *)

MaxLog == 1
MaxNameLen == 1
MaxFound == 2

NameChars == {"q"}

\* usize::saturating_sub
saturating_sub(a, b) == IF a > b THEN a - b ELSE 0

RemoveAt(seq, i) == SubSeq(seq, 1, i - 1) \o SubSeq(seq, i + 1, Len(seq))

\* pop and push of a String
Pop(str) == IF str = <<>> THEN str ELSE SubSeq(str, 1, Len(str) - 1)

\* the text of a successful response, and of several in a row
Line(text) == [text |-> text]

toggle_adding_field(adding) ==
    IF adding.some
    THEN IF adding.val = "IP" THEN Some("Name") ELSE Some("IP")
    ELSE Some("IP")

toggle_settings_field(setting) ==
    IF setting.some
    THEN IF setting.val = "Color" THEN Some("Brightness") ELSE Some("Color")
    ELSE Some("Color")

open_settings_of_first_device(bs) ==
    IF \A i \in DOMAIN bs : ~bs[i].selected THEN None
    ELSE Some([color_input |-> bs[1].bulb.color,
               brightness_input |-> to_string(bs[1].bulb.brightness)])

\* open_settings: the fields it sets, or nothing when no device is selected
open_settings(bs) ==
    LET sel == {i \in DOMAIN bs : bs[i].selected}
        first == CHOOSE i \in sel : \A j \in sel : i <= j
    IN  IF sel = {} THEN None
        ELSE Some([color_input |-> bs[first].bulb.color,
                   brightness_input |-> to_string(bs[first].bulb.brightness)])

prev_device(index) == saturating_sub(index, 1)

\* next_device stopping one step too late
next_device_past_end(index, len) ==
    IF index < len THEN index + 1 ELSE index

next_device(index, len) ==
    IF index < saturating_sub(len, 1) THEN index + 1 ELSE index

\* indexing self.devices.bulbs[index] panics when index is out of bounds
InBounds(bs, index) == index < Len(bs)

select_device(bs, index) ==
    IF bs = <<>> THEN [bulbs |-> bs, panic |-> FALSE]
    ELSE IF ~InBounds(bs, index) THEN [bulbs |-> bs, panic |-> TRUE]
    ELSE [bulbs |-> [bs EXCEPT ![index + 1].selected = ~bs[index + 1].selected],
          panic |-> FALSE]

\* remove_device without the step back of the cursor
remove_device_keeping_index(bs, index) ==
    IF bs = <<>> THEN [bulbs |-> bs, index |-> index, panic |-> FALSE]
    ELSE IF ~InBounds(bs, index) THEN [bulbs |-> bs, index |-> index, panic |-> TRUE]
    ELSE [bulbs |-> RemoveAt(bs, index + 1), index |-> index, panic |-> FALSE]

remove_device(bs, index) ==
    IF bs = <<>> THEN [bulbs |-> bs, index |-> index, panic |-> FALSE]
    ELSE IF ~InBounds(bs, index) THEN [bulbs |-> bs, index |-> index, panic |-> TRUE]
    ELSE [bulbs |-> RemoveAt(bs, index + 1), index |-> prev_device(index),
          panic |-> FALSE]

\* add_device without the look-up of the address in the list
add_device_unchecked(bs, ip_in, name_in, o) ==
    IF ip_in # <<>>
    THEN LET r == Device_get_status(DeviceNew(ip_in, name_in), o)
         IN  IF r.res.ok
             THEN [bulbs |-> Append(bs, r.dev), lines |-> <<Line(<<r.res.val>>)>>,
                   reqs |-> <<r.x>>, ip_input |-> <<>>, name_input |-> <<>>,
                   closed |-> TRUE]
             ELSE [bulbs |-> bs, lines |-> <<r.res>>, reqs |-> <<r.x>>,
                   ip_input |-> ip_in, name_input |-> name_in, closed |-> FALSE]
    ELSE [bulbs |-> bs, lines |-> <<>>, reqs |-> <<>>, ip_input |-> ip_in,
          name_input |-> name_in, closed |-> TRUE]

add_device(bs, ip_in, name_in, o) ==
    IF \E i \in DOMAIN bs : bs[i].ip = ip_in
    THEN [bulbs |-> bs, lines |-> <<[msg |-> "already added", ip |-> ip_in]>>,
          reqs |-> <<>>, ip_input |-> ip_in, name_input |-> name_in,
          closed |-> FALSE]
    ELSE IF ip_in # <<>>
    THEN LET r == Device_get_status(DeviceNew(ip_in, name_in), o)
         IN  IF r.res.ok
             THEN [bulbs |-> Append(bs, r.dev), lines |-> <<Line(<<r.res.val>>)>>,
                   reqs |-> <<r.x>>, ip_input |-> <<>>, name_input |-> <<>>,
                   closed |-> TRUE]
             ELSE [bulbs |-> bs, lines |-> <<r.res>>, reqs |-> <<r.x>>,
                   ip_input |-> ip_in, name_input |-> name_in, closed |-> FALSE]
    ELSE [bulbs |-> bs, lines |-> <<>>, reqs |-> <<>>, ip_input |-> ip_in,
          name_input |-> name_in, closed |-> TRUE]

refresh_devices(bs, outs) ==
    IF bs = <<>> THEN [bulbs |-> bs, lines |-> <<>>, reqs |-> <<>>]
    ELSE LET r == Devices_get_status(bs, outs)
         IN  [bulbs |-> r.bulbs, reqs |-> r.reqs,
              lines |-> IF r.res.ok
                        THEN <<Line(IF r.res.val.some THEN r.res.val.val ELSE <<>>)>>
                        ELSE <<r.res>>]

\* the loop of discover over the addresses found; outs[k] is the outcome of
\* the fetch for the k-th address, if one is made
RECURSIVE discover_loop(_, _, _, _, _, _)
discover_loop(bs, v, k, outs, lines, xs) ==
    IF k > Len(v) THEN [bulbs |-> bs, lines |-> lines, reqs |-> xs]
    ELSE IF \E i \in DOMAIN bs : bs[i].ip = v[k]
         THEN discover_loop(bs, v, k + 1, outs, lines, xs)
    ELSE LET r == Device_get_status(DeviceNew(v[k], <<>>), outs[k])
         IN  IF r.res.ok
             THEN discover_loop(Append(bs, r.dev), v, k + 1, outs,
                                Append(lines, Line(<<r.res.val>>)), Append(xs, r.x))
             ELSE [bulbs |-> bs, lines |-> Append(lines, r.res),
                   reqs |-> Append(xs, r.x)]

\* found is what api::discover_bulbs(200) returned
discover(bs, found, outs) ==
    IF found.ok THEN discover_loop(bs, found.val, 1, outs, <<>>, <<>>)
    ELSE [bulbs |-> bs, lines |-> <<found>>, reqs |-> <<>>]

\* toggle_selected dropping the error instead of logging it
toggle_selected_unlogged(bs, outs) ==
    LET r == Devices_toggle(bs, outs)
    IN  [bulbs |-> r.bulbs, reqs |-> r.reqs, lines |-> <<>>]

toggle_selected(bs, outs) ==
    LET r == Devices_toggle(bs, outs)
    IN  [bulbs |-> r.bulbs, reqs |-> r.reqs,
         lines |-> IF r.res.ok THEN <<>> ELSE <<r.res>>]

toggle_current(bs, index, o) ==
    IF bs = <<>> THEN [bulbs |-> bs, lines |-> <<>>, reqs |-> <<>>, panic |-> FALSE]
    ELSE IF ~InBounds(bs, index)
         THEN [bulbs |-> bs, lines |-> <<>>, reqs |-> <<>>, panic |-> TRUE]
    ELSE LET r == Device_toggle(bs[index + 1], o)
         IN  [bulbs |-> [bs EXCEPT ![index + 1] = r.dev], reqs |-> <<r.x>>,
              lines |-> IF r.res.ok THEN <<>> ELSE <<r.res>>, panic |-> FALSE]

EPSILON == 2

ColorLen == 7

Abs(n) == IF n < 0 THEN 0 - n ELSE n

\* the comparison made against the first selected device instead
differs_from_seed(v, bs, index) ==
    LET sel == {i \in DOMAIN bs : bs[i].selected}
        first == CHOOSE i \in sel : \A j \in sel : i <= j
    IN  Abs(v - bs[first].bulb.brightness) > EPSILON

\* (v - self.current_device().bulb.brightness).abs() > error_margin
differs_from_current(v, bs, index) ==
    Abs(v - bs[index + 1].bulb.brightness) > EPSILON

\* outs_c and outs_b are the outcomes the color and the brightness requests meet
set_color_and_brightness(bs, index, color_in, brightness_in, outs_c, outs_b) ==
    LET colored == color_in # <<>> /\ Len(color_in) = ColorLen
        c == IF colored THEN Devices_set_color(bs, StripHash(color_in), outs_c)
             ELSE [bulbs |-> bs, reqs |-> <<>>, res |-> Ok(<<>>)]
        lines_c == IF c.res.ok THEN <<>> ELSE <<c.res>>
        color_out == IF colored THEN <<"#">> ELSE color_in
        brightness == ParseF32(brightness_in)
    IN  IF ~brightness.ok
        THEN [bulbs |-> c.bulbs, reqs |-> c.reqs,
              lines |-> Append(lines_c, brightness), color_input |-> color_out,
              brightness_input |-> brightness_in, closed |-> FALSE,
              panic |-> FALSE]
        ELSE IF ~InBounds(c.bulbs, index)
        THEN [bulbs |-> c.bulbs, reqs |-> c.reqs, lines |-> lines_c,
              color_input |-> color_out, brightness_input |-> brightness_in,
              closed |-> FALSE, panic |-> TRUE]
        ELSE IF differs_from_current(brightness.val, c.bulbs, index)
        THEN LET b == Devices_set_brightness(c.bulbs, brightness.val, outs_b)
             IN  [bulbs |-> b.bulbs, reqs |-> c.reqs \o b.reqs,
                  lines |-> lines_c \o (IF b.res.ok THEN <<>> ELSE <<b.res>>),
                  color_input |-> color_out, brightness_input |-> <<>>,
                  closed |-> TRUE, panic |-> FALSE]
        ELSE [bulbs |-> c.bulbs, reqs |-> c.reqs, lines |-> lines_c,
              color_input |-> color_out, brightness_input |-> brightness_in,
              closed |-> TRUE, panic |-> FALSE]

-----------------------------------------------------------------------------
(* run_tui: main.rs. One action per arm of the key match; the handler the  *)
(* arm calls runs to its end within the action.                            *)

BrightnessChars == {"1"}

ColorChars == {"0"}

MaxBrightnessLen == 1

\* the model's user edits the last MaxErased characters of a color text
MaxErased == 1

Editable(color) == Len(color) + MaxErased >= ColorLen

\* what api::discover_bulbs can return
Found == {Err("io", <<>>)} \cup {Ok(v) : v \in SeqsUpTo(Addrs, MaxFound)}

\* what a controller answers to a status request, and to a command
Replies ==
    { [net |-> "transport"],
      [net |-> "ok", body |-> [brightness |-> HalfBrightness, color |-> Red, on |-> 1]] }

Acks == {[net |-> "transport"], [net |-> "ok"]}

Black == <<"#", "0", "0", "0", "0", "0", "0">>

\* the colour a saved device was last given
SavedColor(ip) == IF ip = <<"1">> THEN Red ELSE Black

\* the devices of a configuration file this program wrote
SavedDevices ==
    { [bulb |-> from_str([brightness |-> HalfBrightness, color |-> SavedColor(ip),
                          on |-> 1]),
       ip |-> ip,
       name |-> <<>>, selected |-> sel] : ip \in Addrs, sel \in BOOLEAN }

\* the outcomes a fleet call can meet: one per selected device; a device
\* that gets no request has none to choose
Outcomes(bs, pool, none) ==
    {outs \in [DOMAIN bs -> pool] : \A i \in DOMAIN bs : ~bs[i].selected => outs[i] = none}

\* the outcomes discover can meet: one per address found that the list does
\* not hold yet
FetchOutcomes(bs, v) ==
    {outs \in [DOMAIN v -> Replies] :
        \A k \in DOMAIN v : (\E i \in DOMAIN bs : bs[i].ip = v[k]) =>
                                outs[k] = [net |-> "transport"]}

Distinct(bs) == \A i, j \in DOMAIN bs : bs[i].ip = bs[j].ip => i = j

IsError(line) == "ok" \in DOMAIN line

Init ==
    /\ bulbs \in {bs \in SeqsUpTo(SavedDevices, MaxDevices) : Distinct(bs)}
    /\ AppInit

\* the bookkeeping of a handler: what it was, what it found, the exchanges it
\* made and the lines it logged
Handled(o, lines, xs) ==
    /\ op' = o
    /\ pre' = bulbs
    /\ reqs' = xs
    /\ res' = [ok |-> \A k \in DOMAIN lines : ~IsError(lines[k]), lines |-> lines]
    /\ logs' = logs \o lines
    /\ Len(logs') <= MaxLog
    /\ UNCHANGED <<sockVars, cli>>

Key(widget) == pc = "loop" /\ current_widget = widget

form == <<current_widget, currently_adding, currently_setting>>

inputs == <<ip_input, name_input, color_input, brightness_input>>

\* app.refresh_devices() before the loop
StartRefresh ==
    /\ pc = "start"
    /\ \E outs \in Outcomes(bulbs, Replies, [net |-> "transport"]) :
           \E r \in {refresh_devices(bulbs, outs)} :
               /\ bulbs' = r.bulbs
               /\ Handled([name |-> "refresh_devices"], r.lines, r.reqs)
    /\ pc' = "loop"
    /\ UNCHANGED <<current_device_index, form, inputs, saved>>

\* Esc or q in the device list or the log: the config is written, run_tui returns
\* quitting without writing anything
save_and_quit_unwritten(bs, file, written) == file

\* save_and_quit: what the config file holds afterwards; written is whether
\* toml::to_string and fs::write both returned Ok
save_and_quit(bs, file, written) == IF written THEN Some(bs) ELSE file

Quit(widget) ==
    /\ Key(widget)
    /\ \E written \in BOOLEAN :
           /\ saved' = save_and_quit(bulbs, saved, written)
           /\ op' = [name |-> "write_config", written |-> written]
    /\ pre' = bulbs
    /\ reqs' = <<>>
    /\ res' = [ok |-> TRUE, lines |-> <<>>]
    /\ pc' = "quit"
    /\ UNCHANGED <<bulbs, logs, current_device_index, form, inputs, sockVars, cli>>

DevicesQuit == Quit("Devices")

DevicesEnter ==
    /\ Key("Devices")
    /\ \E o \in Acks :
           \E r \in {toggle_current(bulbs, current_device_index, o)} :
               /\ bulbs' = r.bulbs
               /\ pc' = IF r.panic THEN "panic" ELSE pc
               /\ Handled([name |-> "toggle_current"], r.lines, r.reqs)
    /\ UNCHANGED <<current_device_index, form, inputs, saved>>

DevicesTab ==
    /\ Key("Devices")
    /\ current_widget' = "Logs"
    /\ Handled([name |-> "tab"], <<>>, <<>>)
    /\ UNCHANGED <<bulbs, current_device_index, currently_adding,
                   currently_setting, inputs, pc, saved>>

DevicesUp ==
    /\ Key("Devices")
    /\ current_device_index' = prev_device(current_device_index)
    /\ Handled([name |-> "prev_device"], <<>>, <<>>)
    /\ UNCHANGED <<bulbs, form, inputs, pc, saved>>

DevicesDown ==
    /\ Key("Devices")
    /\ current_device_index' = next_device(current_device_index, Len(bulbs))
    /\ Handled([name |-> "next_device"], <<>>, <<>>)
    /\ UNCHANGED <<bulbs, form, inputs, pc, saved>>

DevicesAdd ==
    /\ Key("Devices")
    /\ current_widget' = "AddDevice"
    /\ currently_adding' = Some("IP")
    /\ Handled([name |-> "a"], <<>>, <<>>)
    /\ UNCHANGED <<bulbs, current_device_index, currently_setting, inputs, pc,
                   saved>>

DevicesDiscover ==
    /\ Key("Devices")
    /\ \E found \in Found :
       \E outs \in FetchOutcomes(bulbs, IF found.ok THEN found.val ELSE <<>>) :
           \E r \in {discover(bulbs, found, outs)} :
               /\ Len(r.bulbs) <= MaxDevices
               /\ bulbs' = r.bulbs
               /\ Handled([name |-> "discover", found |-> found, outs |-> outs],
                          r.lines, r.reqs)
    /\ UNCHANGED <<current_device_index, form, inputs, pc, saved>>

DevicesSettings ==
    /\ Key("Devices")
    /\ \E r \in {open_settings(bulbs)} :
           IF r.some
           THEN /\ color_input' = r.val.color_input
                /\ brightness_input' = r.val.brightness_input
                /\ current_widget' = "DeviceSettings"
                /\ currently_setting' = Some("Color")
           ELSE UNCHANGED <<color_input, brightness_input, current_widget,
                            currently_setting>>
    /\ Handled([name |-> "open_settings"], <<>>, <<>>)
    /\ UNCHANGED <<bulbs, current_device_index, currently_adding, ip_input,
                   name_input, pc, saved>>

DevicesRemove ==
    /\ Key("Devices")
    /\ \E r \in {remove_device(bulbs, current_device_index)} :
           /\ bulbs' = r.bulbs
           /\ current_device_index' = r.index
           /\ pc' = IF r.panic THEN "panic" ELSE pc
    /\ Handled([name |-> "remove_device", index |-> current_device_index],
               <<>>, <<>>)
    /\ UNCHANGED <<form, inputs, saved>>

DevicesToggleSelected ==
    /\ Key("Devices")
    /\ \E outs \in Outcomes(bulbs, Acks, [net |-> "transport"]) :
           \E r \in {toggle_selected(bulbs, outs)} :
               /\ bulbs' = r.bulbs
               /\ Handled([name |-> "toggle_selected"], r.lines, r.reqs)
    /\ UNCHANGED <<current_device_index, form, inputs, pc, saved>>

DevicesRefresh ==
    /\ Key("Devices")
    /\ \E outs \in Outcomes(bulbs, Replies, [net |-> "transport"]) :
           \E r \in {refresh_devices(bulbs, outs)} :
               /\ bulbs' = r.bulbs
               /\ Handled([name |-> "refresh_devices"], r.lines, r.reqs)
    /\ UNCHANGED <<current_device_index, form, inputs, pc, saved>>

DevicesSelect ==
    /\ Key("Devices")
    /\ \E r \in {select_device(bulbs, current_device_index)} :
           /\ bulbs' = r.bulbs
           /\ pc' = IF r.panic THEN "panic" ELSE pc
    /\ Handled([name |-> "select_device"], <<>>, <<>>)
    /\ UNCHANGED <<current_device_index, form, inputs, saved>>

LogsQuit == Quit("Logs")

LogsClear ==
    /\ Key("Logs")
    /\ logs' = <<>>
    /\ op' = [name |-> "clear"]
    /\ pre' = bulbs
    /\ reqs' = <<>>
    /\ res' = [ok |-> TRUE, lines |-> <<>>]
    /\ UNCHANGED <<bulbs, current_device_index, form, inputs, pc, saved, sockVars, cli>>

LogsTab ==
    /\ Key("Logs")
    /\ current_widget' = "Devices"
    /\ Handled([name |-> "tab"], <<>>, <<>>)
    /\ UNCHANGED <<bulbs, current_device_index, currently_adding,
                   currently_setting, inputs, pc, saved>>

AddEsc ==
    /\ Key("AddDevice")
    /\ current_widget' = "Devices"
    /\ currently_adding' = None
    /\ Handled([name |-> "esc"], <<>>, <<>>)
    /\ UNCHANGED <<bulbs, current_device_index, currently_setting, inputs, pc,
                   saved>>

AddEnter ==
    /\ Key("AddDevice")
    /\ \E o \in Replies :
           \E r \in {add_device(bulbs, ip_input, name_input, o)} :
               /\ Len(r.bulbs) <= MaxDevices
               /\ bulbs' = r.bulbs
               /\ ip_input' = r.ip_input
               /\ name_input' = r.name_input
               /\ currently_adding' = IF r.closed THEN None ELSE currently_adding
               /\ current_widget' = IF r.closed THEN "Devices" ELSE current_widget
               /\ Handled([name |-> "add_device", ip |-> ip_input], r.lines, r.reqs)
    /\ UNCHANGED <<current_device_index, currently_setting, color_input,
                   brightness_input, pc, saved>>

AddBackspace ==
    /\ Key("AddDevice")
    /\ IF ~currently_adding.some THEN UNCHANGED <<ip_input, name_input>>
       ELSE IF currently_adding.val = "IP"
            THEN ip_input' = Pop(ip_input) /\ UNCHANGED name_input
       ELSE name_input' = Pop(name_input) /\ UNCHANGED ip_input
    /\ Handled([name |-> "backspace"], <<>>, <<>>)
    /\ UNCHANGED <<bulbs, current_device_index, form, color_input,
                   brightness_input, pc, saved>>

AddToggleField ==
    /\ Key("AddDevice")
    /\ currently_adding' = toggle_adding_field(currently_adding)
    /\ Handled([name |-> "toggle_adding_field"], <<>>, <<>>)
    /\ UNCHANGED <<bulbs, current_device_index, current_widget,
                   currently_setting, inputs, pc, saved>>

\* a character key; the model's user types addresses of up to MaxIpLen and
\* names of up to MaxNameLen characters
AddChar ==
    /\ Key("AddDevice")
    /\ currently_adding.some
    /\ IF currently_adding.val = "IP"
       THEN /\ Len(ip_input) < MaxIpLen
            /\ \E c \in IpChars : ip_input' = Append(ip_input, c)
            /\ UNCHANGED name_input
       ELSE /\ Len(name_input) < MaxNameLen
            /\ \E c \in NameChars : name_input' = Append(name_input, c)
            /\ UNCHANGED ip_input
    /\ Handled([name |-> "char"], <<>>, <<>>)
    /\ UNCHANGED <<bulbs, current_device_index, form, color_input,
                   brightness_input, pc, saved>>

\* leaving the form and keeping its active field
SettingsCancelKeepingField ==
    /\ Key("DeviceSettings")
    /\ current_widget' = "Devices"
    /\ Handled([name |-> "esc"], <<>>, <<>>)
    /\ UNCHANGED <<bulbs, current_device_index, currently_adding,
                   currently_setting, inputs, pc, saved>>

SettingsCancel ==
    /\ Key("DeviceSettings")
    /\ current_widget' = "Devices"
    /\ currently_setting' = None
    /\ Handled([name |-> "esc"], <<>>, <<>>)
    /\ UNCHANGED <<bulbs, current_device_index, currently_adding, inputs, pc,
                   saved>>

SettingsEnter ==
    /\ Key("DeviceSettings")
    /\ \E outs_c, outs_b \in Outcomes(bulbs, Acks, [net |-> "transport"]) :
           \E r \in {set_color_and_brightness(bulbs, current_device_index,
                                             color_input, brightness_input,
                                             outs_c, outs_b)} :
               /\ bulbs' = r.bulbs
               /\ color_input' = r.color_input
               /\ brightness_input' = r.brightness_input
               /\ currently_setting' = IF r.closed THEN None ELSE currently_setting
               /\ current_widget' = IF r.closed THEN "Devices" ELSE current_widget
               /\ pc' = IF r.panic THEN "panic" ELSE pc
               /\ Handled([name |-> "set_color_and_brightness",
                           color |-> color_input, brightness |-> brightness_input],
                          r.lines, r.reqs)
    /\ UNCHANGED <<current_device_index, currently_adding, ip_input, name_input,
                   saved>>

SettingsBackspace ==
    /\ Key("DeviceSettings")
    /\ IF ~currently_setting.some THEN UNCHANGED <<color_input, brightness_input>>
       ELSE IF currently_setting.val = "Color"
            THEN /\ Editable(Pop(color_input))
                 /\ color_input' = IF Len(color_input) > 1 THEN Pop(color_input)
                                   ELSE color_input
                 /\ UNCHANGED brightness_input
       ELSE brightness_input' = Pop(brightness_input) /\ UNCHANGED color_input
    /\ Handled([name |-> "backspace"], <<>>, <<>>)
    /\ UNCHANGED <<bulbs, current_device_index, form, ip_input, name_input, pc,
                   saved>>

SettingsToggleField ==
    /\ Key("DeviceSettings")
    /\ currently_setting' = toggle_settings_field(currently_setting)
    /\ Handled([name |-> "toggle_settings_field"], <<>>, <<>>)
    /\ UNCHANGED <<bulbs, current_device_index, current_widget,
                   currently_adding, inputs, pc, saved>>

\* a character key other than q; the model's user types brightness texts of
\* up to MaxBrightnessLen characters
SettingsChar ==
    /\ Key("DeviceSettings")
    /\ currently_setting.some
    /\ IF currently_setting.val = "Color"
       THEN /\ Editable(color_input)
            /\ \E c \in ColorChars :
                   color_input' = IF Len(color_input) < ColorLen
                                  THEN Append(color_input, c) ELSE color_input
            /\ UNCHANGED brightness_input
       ELSE /\ Len(brightness_input) < MaxBrightnessLen
            /\ \E c \in BrightnessChars :
                   brightness_input' = Append(brightness_input, c)
            /\ UNCHANGED color_input
    /\ Handled([name |-> "char"], <<>>, <<>>)
    /\ UNCHANGED <<bulbs, current_device_index, form, ip_input, name_input, pc,
                   saved>>

\* terminal.draw or crossterm::event::read fails: run_tui returns the error
TerminalFailure ==
    /\ pc = "loop"
    /\ pc' = "failed"
    /\ op' = [name |-> "terminal"]
    /\ pre' = bulbs
    /\ reqs' = <<>>
    /\ res' = [ok |-> FALSE, lines |-> <<>>]
    /\ UNCHANGED <<bulbs, logs, current_device_index, form, inputs, saved,
                   sockVars, cli>>

\* the keys that manage the fleet: the list, the add form, discovery, the log
Next ==
    \/ StartRefresh
    \/ TerminalFailure
    \/ DevicesQuit
    \/ DevicesTab
    \/ DevicesUp
    \/ DevicesDown
    \/ DevicesAdd
    \/ DevicesDiscover
    \/ DevicesRemove
    \/ DevicesRefresh
    \/ DevicesSelect
    \/ LogsQuit
    \/ LogsClear
    \/ LogsTab
    \/ AddEsc
    \/ AddEnter
    \/ AddBackspace
    \/ AddToggleField
    \/ AddChar

Spec == Init /\ [][Next]_vars

\* the keys that reach a controller, and the forms that lead to them
NextCalls ==
    \/ StartRefresh
    \/ TerminalFailure
    \/ DevicesQuit
    \/ DevicesEnter
    \/ DevicesTab
    \/ DevicesAdd
    \/ DevicesDiscover
    \/ DevicesSettings
    \/ DevicesToggleSelected
    \/ DevicesRefresh
    \/ LogsClear
    \/ LogsTab
    \/ AddEnter
    \/ AddChar
    \/ SettingsCancel
    \/ SettingsEnter
    \/ SettingsBackspace
    \/ SettingsToggleField
    \/ SettingsChar

SpecCalls == Init /\ [][NextCalls]_vars

-----------------------------------------------------------------------------
(* The device list alone: a configuration file of up to MaxDevices devices *)
(* and the keys whose handlers index the list at the cursor: moving it,    *)
(* selecting, toggling, removing, and confirming the settings form.        *)

\* the addresses of a longer configuration file
ListAddrs == Addrs \cup {<<"3">>}

ListedDevices ==
    { [bulb |-> from_str([brightness |-> HalfBrightness, color |-> Red, on |-> 1]),
       ip |-> ip, name |-> <<>>, selected |-> sel] :
        ip \in ListAddrs, sel \in BOOLEAN }

InitList ==
    /\ bulbs \in {bs \in SeqsUpTo(ListedDevices, MaxDevices) : Distinct(bs)}
    /\ AppInit

NextList ==
    \/ StartRefresh
    \/ DevicesUp
    \/ DevicesDown
    \/ DevicesRemove
    \/ DevicesSelect
    \/ DevicesEnter
    \/ DevicesSettings
    \/ SettingsCancel
    \/ SettingsEnter

SpecList == InitList /\ [][NextList]_vars

-----------------------------------------------------------------------------
(* Cli::run: cli.rs. The run is followed block by block: the device list   *)
(* is put together, then each requested action runs in the order of the    *)
(* code, and the first error returned by a ? ends the run.                 *)

MaxAddrs == 2

\* the -a options of the command line
CliAddrs == SeqsUpTo(Addrs, MaxAddrs)

\* what api::discover_bulbs(200) returns to the run
CliFound == {Err("io", <<>>), Ok(<<>>), Ok(<<<<"2">>>>)}

PowerStates == {"On", "Off", "Toggle"}

RECURSIVE push_new(_, _)
\* devices.bulbs.push(Device::new(a, String::new())) for each address
push_new(bs, addrs) ==
    IF addrs = <<>> THEN bs
    ELSE push_new(Append(bs, DeviceNew(Head(addrs), <<>>)), Tail(addrs))

\* the list put together without the test for an empty one
cli_devices_unchecked(bs, addrs, discover_opt, found) ==
    LET given == IF addrs # <<>> THEN push_new(<<>>, addrs) ELSE bs
    IN  IF discover_opt /\ ~found.ok THEN [bulbs |-> given, res |-> found]
        ELSE [bulbs |-> IF discover_opt THEN push_new(given, found.val) ELSE given,
              res |-> Ok(<<>>)]

\* cli.rs 66-82: the list the actions will work on, or the error
cli_devices(bs, addrs, discover_opt, found) ==
    LET given == IF addrs # <<>> THEN push_new(<<>>, addrs) ELSE bs
    IN  IF discover_opt /\ ~found.ok THEN [bulbs |-> given, res |-> found]
        ELSE LET all == IF discover_opt THEN push_new(given, found.val) ELSE given
             IN  IF all = <<>>
                 THEN [bulbs |-> all, res |-> Err("no devices found", <<>>)]
                 ELSE [bulbs |-> all, res |-> Ok(<<>>)]

\* PowerState::Toggle acting on the cache, without devices.get_status()
power_toggle_cached(bs, outs_s, outs) == Devices_toggle(bs, outs)

\* PowerState::Toggle: devices.get_status()?; devices.toggle()?
power_toggle(bs, outs_s, outs) ==
    LET s == Devices_get_status(bs, outs_s)
    IN  IF ~s.res.ok THEN [bulbs |-> s.bulbs, reqs |-> s.reqs, res |-> s.res]
        ELSE LET t == Devices_toggle(s.bulbs, outs)
             IN  [bulbs |-> t.bulbs, reqs |-> s.reqs \o t.reqs, res |-> t.res]

InitCli ==
    /\ bulbs \in {bs \in SeqsUpTo(SavedDevices, MaxDevices) : Distinct(bs)}
    /\ AppInit

\* cli.rs 63-83
CliStart ==
    /\ cli.at = "idle"
    /\ \E addrs \in CliAddrs, discover_opt \in BOOLEAN, found \in CliFound,
          brightness \in {None, Some(HalfBrightness)},
          color \in {None, Some(Red)},
          power \in {None} \cup {Some(p) : p \in PowerStates},
          status \in BOOLEAN :
       \E r \in {cli_devices(bulbs, addrs, discover_opt, found)} :
           /\ discover_opt \/ found = Ok(<<>>)
           /\ Len(r.bulbs) <= MaxDevices
           /\ bulbs' = r.bulbs
           /\ res' = r.res
           /\ cli' = [at |-> IF r.res.ok THEN "brightness" ELSE "end",
                      addrs |-> addrs, discover |-> discover_opt,
                      brightness |-> brightness, color |-> color,
                      power |-> power, status |-> status,
                      sth_was_done |-> FALSE, text |-> None, ran |-> <<>>]
           /\ op' = [name |-> "Cli::run"]
    /\ pre' = bulbs
    /\ reqs' = <<>>
    /\ UNCHANGED <<appVars, sockVars>>

\* a block whose error does not end the run
CliBlockContinuing(action, requested, next, r) ==
    /\ cli.at = action
    /\ IF ~requested
       THEN /\ cli' = [cli EXCEPT !.at = next]
            /\ UNCHANGED <<bulbs, reqs, res>>
       ELSE /\ bulbs' = r.bulbs
            /\ reqs' = reqs \o r.reqs
            /\ res' = IF r.res.ok THEN res ELSE r.res
            /\ cli' = [cli EXCEPT
                          !.at = next,
                          !.sth_was_done = TRUE,
                          !.ran = Append(@, [action |-> action, reqs |-> r.reqs,
                                             ok |-> r.res.ok])]
    /\ UNCHANGED <<appVars, sockVars, op, pre>>

\* one `if let Some(..)` block of the run: skipped when the option is absent;
\* otherwise r is what the call of the block did, and its error ends the run
CliBlock(action, requested, next, r) ==
    /\ cli.at = action
    /\ IF ~requested
       THEN /\ cli' = [cli EXCEPT !.at = next]
            /\ UNCHANGED <<bulbs, reqs, res>>
       ELSE /\ bulbs' = r.bulbs
            /\ reqs' = reqs \o r.reqs
            /\ res' = IF r.res.ok THEN res ELSE r.res
            /\ cli' = [cli EXCEPT
                          !.at = IF r.res.ok THEN next ELSE "end",
                          !.sth_was_done = TRUE,
                          !.text = IF action = "status" /\ r.res.ok
                                   THEN Some(r.res.val) ELSE @,
                          !.ran = Append(@, [action |-> action, reqs |-> r.reqs,
                                             ok |-> r.res.ok])]
    /\ UNCHANGED <<appVars, sockVars, op, pre>>

\* cli.rs 85-88
CliBrightness ==
    /\ cli.at = "brightness"
    /\ \E outs \in Outcomes(bulbs, Acks, [net |-> "transport"]) :
           CliBlock("brightness", cli.brightness.some, "color",
                    IF cli.brightness.some
                    THEN Devices_set_brightness(bulbs, cli.brightness.val, outs)
                    ELSE <<>>)

\* cli.rs 89-92
CliColor ==
    /\ cli.at = "color"
    /\ \E outs \in Outcomes(bulbs, Acks, [net |-> "transport"]) :
           CliBlock("color", cli.color.some, "power",
                    IF cli.color.some
                    THEN Devices_set_color(bulbs, cli.color.val, outs)
                    ELSE <<>>)

\* cli.rs 93-103
CliPower ==
    /\ cli.at = "power"
    /\ \E outs_s \in Outcomes(bulbs, Replies, [net |-> "transport"]),
          outs \in Outcomes(bulbs, Acks, [net |-> "transport"]) :
           CliBlock("power", cli.power.some, "status",
                    IF ~cli.power.some THEN <<>>
                    ELSE IF cli.power.val = "On" THEN Devices_on(bulbs, outs)
                    ELSE IF cli.power.val = "Off" THEN Devices_off(bulbs, outs)
                    ELSE power_toggle(bulbs, outs_s, outs))

\* cli.rs 104-107
CliStatus ==
    /\ cli.at = "status"
    /\ \E outs \in Outcomes(bulbs, Replies, [net |-> "transport"]) :
           CliBlock("status", cli.status, "finish",
                    IF cli.status THEN Devices_get_status(bulbs, outs)
                    ELSE <<>>)

\* cli.rs 109-113
CliFinish ==
    /\ cli.at = "finish"
    /\ cli' = [cli EXCEPT !.at = "end"]
    /\ res' = IF cli.sth_was_done THEN Ok(cli.text)
              ELSE Err("nothing to do", <<>>)
    /\ UNCHANGED <<bulbs, appVars, sockVars, op, pre, reqs>>

NextCli ==
    \/ CliStart
    \/ CliBrightness
    \/ CliColor
    \/ CliPower
    \/ CliStatus
    \/ CliFinish

SpecCli == InitCli /\ [][NextCli]_vars



-----
(* Properties of the library calls (SpecApi) *)

DeviceMethods ==
    {"Device::get_status", "Device::on", "Device::off", "Device::toggle",
     "Device::set_color", "Device::set_brightness"}

\* an exchange that the caller takes as a success
Succeeded(x) ==
    /\ x.out.net = "ok"
    /\ x.verb = "status" => Decodable(x.out.body)

\* the error a failed exchange is reported as
ErrorOf(x) == Err(IF x.out.net = "ok" THEN "decode" ELSE x.out.net, x.ip)

\* indices of the selected devices of bs, in list order
SelectedOf(bs) == SelectSeq([i \in 1 .. Len(bs) |-> i], LAMBDA i : bs[i].selected)

\* C1: a single-device call changes the cached bulb only when its request
\* succeeded: after a transport failure, a non-2xx status or an undecodable
\* status body, the whole device list is what it was before the call.
C1_FailureLeavesBulb ==
    (op.name \in DeviceMethods /\ ~res.ok) =>
        /\ bulbs = pre
        /\ Len(reqs) = 1
        /\ ~Succeeded(reqs[1])
        /\ res = ErrorOf(reqs[1])

C1_Witness ==
    /\ op.name = "Device::get_status"
    /\ ~res.ok
    /\ res.err = "decode"
    /\ bulbs[op.i].bulb.enabled = 2

\* C2: Devices::add of an address the list already holds once, the status
\* fetch succeeding, fails and leaves exactly one device with that address.
C2_AddRejectsDuplicate ==
    (/\ op.name = "Devices::add"
     /\ Cardinality({i \in DOMAIN pre : pre[i].ip = op.ip}) = 1
     /\ \A k \in DOMAIN reqs : Succeeded(reqs[k])) =>
        /\ ~res.ok
        /\ Cardinality({i \in DOMAIN bulbs : bulbs[i].ip = op.ip}) = 1

\* C4: Devices::add appends only if its status fetch succeeds: on failure the
\* list is unchanged and the result is the fetch's error; on success exactly
\* one device is appended at the end, selected, holding the parsed state.
C4_AddAppendsOnlyOnSuccess ==
    op.name = "Devices::add" =>
        /\ Len(reqs) = 1
        /\ reqs[1].verb = "status"
        /\ reqs[1].ip = op.ip
        /\ IF Succeeded(reqs[1])
           THEN /\ res.ok
                /\ Len(bulbs) = Len(pre) + 1
                /\ SubSeq(bulbs, 1, Len(pre)) = pre
                /\ bulbs[Len(bulbs)].ip = op.ip
                /\ bulbs[Len(bulbs)].selected
                /\ bulbs[Len(bulbs)].bulb = from_str(reqs[1].out.body)
           ELSE /\ bulbs = pre
                /\ res = ErrorOf(reqs[1])

C4_Witness ==
    /\ op.name = "Devices::add"
    /\ ~res.ok
    /\ Len(pre) = 2
    /\ bulbs = pre

\* C5: Devices::toggle with every request succeeding: no status is fetched;
\* the reference is the cached enabled flag of the first selected device;
\* every selected device ends with the same flag, 0 if the reference was 1
\* and 1 otherwise; unselected devices get no request and do not change.
C5_ToggleLockStep ==
    (op.name = "Devices::toggle" /\ res.ok) =>
        LET sel == SelectedOf(pre)
            target == IF sel # <<>> /\ pre[sel[1]].bulb.enabled = 1 THEN 0 ELSE 1
        IN  /\ Len(bulbs) = Len(pre)
            /\ Len(reqs) = Len(sel)
            /\ \A k \in DOMAIN reqs :
                   /\ reqs[k].ip = pre[sel[k]].ip
                   /\ reqs[k].verb = IF target = 1 THEN "on" ELSE "off"
            /\ \A i \in DOMAIN pre :
                   IF pre[i].selected
                   THEN bulbs[i] = [pre[i] EXCEPT !.bulb.enabled = target]
                   ELSE bulbs[i] = pre[i]

C5_Witness ==
    /\ op.name = "Devices::toggle"
    /\ res.ok
    /\ Len(pre) = 3
    /\ ~pre[1].selected /\ pre[2].selected /\ pre[3].selected
    /\ pre[1].bulb.enabled = 0
    /\ pre[2].bulb.enabled = 1
    /\ pre[3].bulb.enabled = 0
    /\ bulbs[3].bulb.enabled = 0

\* C6: Devices::get_status is fail-fast in list order: when it fails, the
\* failing exchange is the last one made, the selected devices before it hold
\* the state parsed from their responses, the failing device and every later
\* one are unchanged, and the result is that first error, without summaries.
C6_StatusFailFast ==
    (op.name = "Devices::get_status" /\ ~res.ok) =>
        LET sel == SelectedOf(pre)
            k == Len(reqs)
        IN  /\ k \in 1 .. Len(sel)
            /\ \A j \in 1 .. k :
                   /\ reqs[j].ip = pre[sel[j]].ip
                   /\ reqs[j].verb = "status"
            /\ \A j \in 1 .. k - 1 :
                   /\ Succeeded(reqs[j])
                   /\ bulbs[sel[j]] =
                          [pre[sel[j]] EXCEPT !.bulb = from_str(reqs[j].out.body)]
            /\ ~Succeeded(reqs[k])
            /\ res = ErrorOf(reqs[k])
            /\ Len(bulbs) = Len(pre)
            /\ \A i \in DOMAIN pre :
                   (~pre[i].selected \/ i >= sel[k]) => bulbs[i] = pre[i]

C6_Witness ==
    /\ op.name = "Devices::get_status"
    /\ ~res.ok
    /\ Len(SelectedOf(pre)) = 3
    /\ Len(reqs) = 2
    /\ bulbs[1] # pre[1]
    /\ bulbs[3] = pre[3]

FleetSetters ==
    {"Devices::on", "Devices::off", "Devices::set_color",
     "Devices::set_brightness"}

\* what a device holds once the command of the call o has reached it
Commanded(o, d) ==
    CASE o.name = "Devices::on" -> [d EXCEPT !.bulb.enabled = 1]
      [] o.name = "Devices::off" -> [d EXCEPT !.bulb.enabled = 0]
      [] o.name = "Devices::set_color" ->
             [d EXCEPT !.bulb.color = <<"#">> \o StripHash(o.color)]
      [] o.name = "Devices::set_brightness" ->
             [d EXCEPT !.bulb.brightness = o.brightness]

\* C7: Devices::on, off, set_color and set_brightness are fail-fast in list
\* order: when one fails, the failing exchange is the last one made, the
\* selected devices before it hold the commanded value, the failing device
\* and every later one keep their cached value, and the result is that error.
C7_SettersFailFast ==
    (op.name \in FleetSetters /\ ~res.ok) =>
        LET sel == SelectedOf(pre)
            k == Len(reqs)
        IN  /\ k \in 1 .. Len(sel)
            /\ \A j \in 1 .. k : reqs[j].ip = pre[sel[j]].ip
            /\ \A j \in 1 .. k - 1 :
                   /\ Succeeded(reqs[j])
                   /\ bulbs[sel[j]] = Commanded(op, pre[sel[j]])
            /\ ~Succeeded(reqs[k])
            /\ res = ErrorOf(reqs[k])
            /\ Len(bulbs) = Len(pre)
            /\ \A i \in DOMAIN pre :
                   (~pre[i].selected \/ i >= sel[k]) => bulbs[i] = pre[i]

C7_Witness ==
    /\ op.name = "Devices::set_color"
    /\ ~res.ok
    /\ Len(SelectedOf(pre)) = 3
    /\ Len(reqs) = 2
    /\ bulbs[1].bulb.color # pre[1].bulb.color
    /\ bulbs[2] = pre[2]

-----------------------------------------------------------------------------
(* Properties of the fleet keys (Spec) *)

\* C3: from a fleet of pairwise distinct addresses, whatever the sequence of
\* add-form confirms, discoveries (the responders' list may repeat
\* addresses), removals, navigation and selection, no two devices of the
\* fleet have the same address.
C3_AddressesDistinct == Distinct(bulbs)

C3_Witness ==
    /\ op.name = "discover"
    /\ op.found.ok
    /\ Len(op.found.val) = 2
    /\ op.found.val[1] = op.found.val[2]
    /\ Len(bulbs) = Len(pre) + 1
    /\ Len(pre) = 1

\* a fetch that discover would see succeed
Fetched(o) == o.net = "ok" /\ Decodable(o.body)

Holds(bs, ip) == \E i \in DOMAIN bs : bs[i].ip = ip

\* C8: discover is best-effort per address found: the failure of one fetch is
\* logged, and every address found that was not yet in the fleet and whose
\* fetch succeeds is in the fleet afterwards (outs[k] is what the controller
\* at the k-th address found answers to a status request).
C8_DiscoverBestEffort ==
    (op.name = "discover" /\ op.found.ok) =>
        /\ \A k \in DOMAIN reqs :
               ~Succeeded(reqs[k]) => \E n \in DOMAIN res.lines :
                                          res.lines[n] = ErrorOf(reqs[k])
        /\ \A k \in DOMAIN op.found.val :
               (/\ ~Holds(pre, op.found.val[k])
                /\ \A j \in 1 .. k - 1 : op.found.val[j] # op.found.val[k]
                /\ Fetched(op.outs[k])) =>
                   Holds(bulbs, op.found.val[k])

\* C9: the cursor is 0 on an empty list and below the length otherwise, and
\* removing the last device of a longer list leaves it on the new last one.
C9_IndexInRange ==
    /\ current_device_index >= 0
    /\ IF bulbs = <<>> THEN current_device_index = 0
       ELSE current_device_index < Len(bulbs)
    /\ (op.name = "remove_device" /\ Len(pre) >= 2 /\ op.index = Len(pre) - 1) =>
           current_device_index = Len(bulbs) - 1

C9_Witness ==
    /\ op.name = "remove_device"
    /\ Len(pre) = 2
    /\ op.index = 1
    /\ Len(bulbs) = 1
    /\ current_device_index = 0

C15_CancelDiscardsBuffers ==
    op.name = "esc" =>
        /\ current_widget = "Devices"
        /\ currently_adding = None
        /\ ip_input = <<>>
        /\ name_input = <<>>
        /\ bulbs = pre
        /\ reqs = <<>>

\* C16: confirming the add form with an empty IP buffer, or with the address
\* of a device of the fleet, appends a message to the log and adds nothing:
\* no request is made and the device list is unchanged.
C16_EmptyOrHeldIsRefused ==
    (op.name = "add_device" /\ (op.ip = <<>> \/ Holds(pre, op.ip))) =>
        /\ Len(res.lines) = 1
        /\ logs # <<>>
        /\ logs[Len(logs)] = res.lines[1]
        /\ reqs = <<>>
        /\ bulbs = pre

-----------------------------------------------------------------------------
(* Properties of the keys that reach a controller (SpecCalls) *)

Handlers ==
    {"refresh_devices", "toggle_current", "toggle_selected", "discover",
     "add_device", "set_color_and_brightness"}

Logged(line) == \E n \in DOMAIN res.lines : res.lines[n] = line

\* C10: no failure of a controller call ends the loop: after refresh, toggle
\* current, toggle selected, discover, add confirm or settings confirm, the
\* error of every failed request (and of a failed discovery) is among the
\* lines the handler appended at the end of the log, and the loop is still
\* reading keys; the loop ends only by the quit key or a terminal error.
C10_FailuresAreLogged ==
    /\ pc \in {"start", "loop", "quit", "failed"}
    /\ pc = "quit" => op.name = "write_config"
    /\ pc = "failed" => op.name = "terminal"
    /\ op.name \in Handlers =>
           /\ pc = "loop"
           /\ Len(logs) >= Len(res.lines)
           /\ SubSeq(logs, Len(logs) - Len(res.lines) + 1, Len(logs)) = res.lines
           /\ \A k \in DOMAIN reqs : ~Succeeded(reqs[k]) => Logged(ErrorOf(reqs[k]))
           /\ (op.name = "discover" /\ ~op.found.ok) => Logged(op.found)

C10_Witness ==
    /\ op.name = "set_color_and_brightness"
    /\ pc = "loop"
    /\ reqs # <<>>
    /\ reqs[Len(reqs)].verb = "brightness"
    /\ ~Succeeded(reqs[Len(reqs)])
    /\ logs = <<ErrorOf(reqs[Len(reqs)])>>

-----------------------------------------------------------------------------
(* Properties of discovery (SpecDiscover) *)

\* the senders of the datagrams r, in arrival order
Senders(r) == [k \in 1 .. Len(r) |-> r[k].from]

IsPong(d) == d.payload = BULBS_PONG

WasPushed(d) == d.pushed

\* C11: within one discovery call the addresses collected are the senders of
\* exactly the datagrams whose payload is the 16 bytes of the pong: a
\* shorter (or empty), longer or different payload adds no address,
\* whatever was received before it.
C11_OnlyExactPongs ==
    dpc \in {"recv", "done"} => devices = Senders(SelectSeq(rcvd, IsPong))

\* C12: a receive timeout ends discovery with Ok of the addresses collected
\* so far, in arrival order and with duplicates (the empty list when nothing
\* was received); any other receive error ends it with the error.
C12_TimeoutEndsDiscovery ==
    /\ (dpc = "done" /\ op.end = "timeout") =>
           /\ res = Ok(Senders(SelectSeq(rcvd, WasPushed)))
           /\ \A k \in DOMAIN rcvd : IsPong(rcvd[k]) => rcvd[k].pushed
           /\ rcvd = <<>> => res = Ok(<<>>)
    /\ (dpc = "done" /\ op.end = "error") => res = Err("io", <<>>)

C12_Witness ==
    /\ dpc = "done"
    /\ op.end = "timeout"
    /\ Len(rcvd) = 2
    /\ IsPong(rcvd[1])
    /\ IsPong(rcvd[2])
    /\ rcvd[1].from = rcvd[2].from
    /\ res = Ok(<<rcvd[1].from, rcvd[1].from>>)

-----------------------------------------------------------------------------
(* Properties of two toggles in a row (SpecToggle) *)

\* C13: whatever enabled value the cache holds (it is the integer of the
\* status response), two successful Device::toggle calls in a row bring the
\* cached enabled value back to what it was.
C13_ToggleTwiceRestores ==
    (op.name = "Device::toggle" /\ op.calls = 2 /\ res.ok) =>
        bulbs[op.i].bulb.enabled = pre[op.i].bulb.enabled

-----------------------------------------------------------------------------
(* Properties of the settings form (SpecCalls) *)

\* the first selected device of bs (the one open_settings reads)
FirstSelected(bs) == bs[SelectedOf(bs)[1]]

BrightnessRequests(xs) == SelectSeq(xs, LAMBDA x : x.verb = "brightness")

\* C17 as stated: on a settings confirm whose brightness buffer parses to v, brightness
\* requests are made if and only if v differs by more than the epsilon from
\* the cached brightness of the first selected device, the one the form was
\* filled from.
C17_BrightnessSetIffChanged ==
    (/\ op.name = "set_color_and_brightness"
     /\ ParseF32(op.brightness).ok
     /\ SelectedOf(pre) # <<>>) =>
        (BrightnessRequests(reqs) # <<>>
            <=> Abs(ParseF32(op.brightness).val - FirstSelected(pre).bulb.brightness)
                    > EPSILON)

\* C17, amended: brightness requests are made if and only if v differs by
\* more than the epsilon from the cached brightness of the current device,
\* the one under the cursor of the device list, whichever device the form
\* was filled from.
C17_BrightnessSetIffCurrentDiffers ==
    (/\ op.name = "set_color_and_brightness"
     /\ ParseF32(op.brightness).ok
     /\ SelectedOf(pre) # <<>>) =>
        (BrightnessRequests(reqs) # <<>>
            <=> Abs(ParseF32(op.brightness).val
                      - pre[current_device_index + 1].bulb.brightness) > EPSILON)

C17_Witness ==
    /\ op.name = "set_color_and_brightness"
    /\ SelectedOf(pre) # <<>>
    /\ ~pre[current_device_index + 1].selected
    /\ ParseF32(op.brightness) = Ok(FirstSelected(pre).bulb.brightness)
    /\ BrightnessRequests(reqs) # <<>>

\* C18: a settings confirm always returns to the device list with no active
\* field, whatever the buffers hold: an unparsable brightness is logged and
\* the brightness half is skipped.
C18_ConfirmClosesForm ==
    op.name = "set_color_and_brightness" =>
        /\ current_widget = "Devices"
        /\ currently_setting = None
        /\ ~ParseF32(op.brightness).ok =>
               /\ BrightnessRequests(reqs) = <<>>
               /\ Logged(ParseF32(op.brightness))

\* C20: the settings key on the device list opens the form only when a
\* device is selected; the form then has Color as its active field, the
\* colour buffer is the cached colour of the first selected device and the
\* brightness buffer is the text of its cached brightness (it parses back
\* to it); with no device selected the key changes neither the widget, nor
\* the active fields, nor the buffers, nor the list, nor the cursor.
C20_SettingsOpenOnSelection ==
    [][/\ (current_widget = "Devices" /\ current_widget' = "DeviceSettings") =>
              /\ SelectedOf(bulbs) # <<>>
              /\ op'.name = "open_settings"
       /\ (Key("Devices") /\ op'.name = "open_settings") =>
              IF SelectedOf(bulbs) # <<>>
              THEN /\ current_widget' = "DeviceSettings"
                   /\ currently_setting' = Some("Color")
                   /\ color_input' = FirstSelected(bulbs).bulb.color
                   /\ brightness_input' =
                          to_string(FirstSelected(bulbs).bulb.brightness)
                   /\ ParseF32(brightness_input') =
                          Ok(FirstSelected(bulbs).bulb.brightness)
                   /\ UNCHANGED <<bulbs, current_device_index>>
              ELSE UNCHANGED <<bulbs, current_device_index, form, inputs>>
      ]_vars

C20_Witness ==
    /\ op.name = "open_settings"
    /\ current_widget = "DeviceSettings"
    /\ currently_setting = Some("Color")
    /\ Len(bulbs) = 2
    /\ ~bulbs[1].selected
    /\ bulbs[2].selected
    /\ bulbs[2].bulb.color # bulbs[1].bulb.color
    /\ bulbs[2].bulb.brightness # bulbs[1].bulb.brightness
    /\ color_input = bulbs[2].bulb.color
    /\ ParseF32(brightness_input) = Ok(bulbs[2].bulb.brightness)

-----------------------------------------------------------------------------
(* Properties of colour requests (SpecApi) *)

\* the device the k-th request of the call went to: the device called, or
\* the k-th selected device of the list
ColorTarget(k) ==
    IF op.name = "Device::set_color" THEN op.i ELSE SelectedOf(pre)[k]

\* C19: after a colour call of the library, whatever string the caller
\* gave, every device whose colour request succeeded caches exactly seven
\* characters: the '#' and then the six characters sent to it.
C19_CachedColorIsSevenChars ==
    op.name \in {"Device::set_color", "Devices::set_color"} =>
        \A k \in DOMAIN reqs :
            Succeeded(reqs[k]) =>
                /\ Len(bulbs[ColorTarget(k)].bulb.color) = ColorLen
                /\ Len(reqs[k].arg) = ColorLen - 1
                /\ bulbs[ColorTarget(k)].bulb.color = <<"#">> \o reqs[k].arg

-----------------------------------------------------------------------------
(* Properties of the device list (SpecList) *)

Min(a, b) == IF a <= b THEN a ELSE b

\* C24: removing the device under the cursor, at index i of a list of n
\* devices, leaves the cursor on min(i, n - 2) when n >= 2 (on the former
\* successor unless i was the last) and on 0 when n = 1, and the other
\* devices keep their order.
C24_RemoveClampsIndex ==
    (op.name = "remove_device" /\ pre # <<>> /\ op.index < Len(pre)) =>
        /\ bulbs = RemoveAt(pre, op.index + 1)
        /\ current_device_index =
               IF Len(pre) = 1 THEN 0 ELSE Min(op.index, Len(pre) - 2)

-----------------------------------------------------------------------------
(* Properties of the add form (Spec) *)

\* C25: confirming the add form with a non-empty address the list does not
\* hold makes one status request to it. When the fetch succeeds, one device
\* is appended at the end, selected, with the address, the name and the
\* parsed state; the devices before it and the cursor are unchanged, both
\* buffers are emptied, one line is logged and the device list is shown.
\* When it fails, the error is logged and the list, the form, its active
\* field and the buffers are what they were.
C25_AddConfirm ==
    [][(/\ Key("AddDevice")
        /\ op'.name = "add_device"
        /\ ip_input # <<>>
        /\ ~Holds(bulbs, ip_input)) =>
           /\ Len(reqs') = 1
           /\ reqs'[1].verb = "status"
           /\ reqs'[1].ip = ip_input
           /\ current_device_index' = current_device_index
           /\ Len(logs') = Len(logs) + 1
           /\ IF Succeeded(reqs'[1])
              THEN /\ bulbs' = Append(bulbs,
                                      [bulb |-> from_str(reqs'[1].out.body),
                                       ip |-> ip_input, name |-> name_input,
                                       selected |-> TRUE])
                   /\ ip_input' = <<>>
                   /\ name_input' = <<>>
                   /\ current_widget' = "Devices"
                   /\ currently_adding' = None
              ELSE /\ logs'[Len(logs')] = ErrorOf(reqs'[1])
                   /\ UNCHANGED <<bulbs, form, inputs>>
      ]_vars

C25_Witness ==
    /\ op.name = "add_device"
    /\ pre # <<>>
    /\ ~pre[1].selected
    /\ bulbs = Append(pre, bulbs[Len(bulbs)])
    /\ bulbs[Len(bulbs)].selected
    /\ bulbs[Len(bulbs)].ip = op.ip
    /\ bulbs[Len(bulbs)].name = <<"q">>
    /\ Len(logs) = 1
    /\ current_widget = "Devices"
    /\ ip_input = <<>>
    /\ name_input = <<>>

-----------------------------------------------------------------------------
(* Properties of the widgets and their fields (SpecCalls) *)

\* C27: the widget shown and the active fields agree in every state: the add
\* form has an active field exactly when it is shown, the settings form has
\* one exactly when it is shown, and so the device list and the log have
\* neither.
C27_WidgetAndFieldAgree ==
    /\ currently_adding.some <=> current_widget = "AddDevice"
    /\ currently_setting.some <=> current_widget = "DeviceSettings"
    /\ current_widget \in {"Devices", "Logs", "AddDevice", "DeviceSettings"}

C27_Witness ==
    /\ op.name = "esc"
    /\ pre # <<>>
    /\ current_widget = "Devices"
    /\ currently_setting = None
    /\ currently_adding = None
    /\ Len(color_input) = ColorLen

-----------------------------------------------------------------------------
(* Properties of the cursor (SpecList) *)

\* C28: no handler indexes the device list out of bounds: the loop never
\* panics, the cursor is below the length of a non-empty list, the settings
\* form (whose confirm reads the device under the cursor) is open only on a
\* non-empty list, and the handlers that read the device under the cursor
\* found either an empty list, and did nothing, or a cursor inside it.
C28_NoIndexOutOfBounds ==
    /\ pc # "panic"
    /\ bulbs # <<>> => current_device_index < Len(bulbs)
    /\ current_widget = "DeviceSettings" => bulbs # <<>>
    /\ op.name = "remove_device" => (pre = <<>> \/ op.index < Len(pre))
    /\ op.name \in {"select_device", "toggle_current"} =>
           (pre = <<>> \/ current_device_index < Len(pre))
    /\ op.name = "set_color_and_brightness" =>
           current_device_index < Len(pre)

C28_Witness ==
    /\ op.name = "remove_device"
    /\ Len(pre) = 1
    /\ op.index = 0
    /\ bulbs = <<>>
    /\ current_device_index = 0
    /\ pc = "loop"

-----------------------------------------------------------------------------
(* Properties of the calls on the whole list (SpecApi) *)

FleetCalls ==
    {"Devices::get_status", "Devices::on", "Devices::off", "Devices::toggle",
     "Devices::set_color", "Devices::set_brightness"}

\* d and e differ in nothing but the cached bulb
SameButBulb(d, e) == d.ip = e.ip /\ d.name = e.name /\ d.selected = e.selected

\* C30: a call on the whole list sends its requests to selected devices
\* only, in list order, leaves every unselected device as it was, and keeps
\* the length and order of the list and every address, name and selected
\* flag; toggle_one changes at most the enabled flag of the device at its
\* index, selected or not, and sends its one request to it.
C30_FleetCallsFrame ==
    /\ op.name \in FleetCalls =>
           /\ Len(reqs) <= Len(SelectedOf(pre))
           /\ \A k \in DOMAIN reqs : reqs[k].ip = pre[SelectedOf(pre)[k]].ip
           /\ Len(bulbs) = Len(pre)
           /\ \A i \in DOMAIN pre :
                  /\ SameButBulb(bulbs[i], pre[i])
                  /\ ~pre[i].selected => bulbs[i] = pre[i]
    /\ op.name = "Devices::toggle_one" =>
           /\ Len(reqs) = 1
           /\ reqs[1].ip = pre[op.i].ip
           /\ reqs[1].verb \in {"on", "off"}
           /\ Len(bulbs) = Len(pre)
           /\ \A i \in DOMAIN pre : i # op.i => bulbs[i] = pre[i]
           /\ \E e \in {0, 1} : bulbs[op.i] = [pre[op.i] EXCEPT !.bulb.enabled = e]
                                    \/ bulbs[op.i] = pre[op.i]

C30_Witness ==
    /\ op.name = "Devices::off"
    /\ res.ok
    /\ Len(pre) = 3
    /\ ~pre[1].selected
    /\ pre[1].bulb.enabled = 1
    /\ pre[2].selected
    /\ pre[2].bulb.enabled = 1
    /\ ~pre[3].selected
    /\ Len(reqs) = 1
    /\ bulbs[1] = pre[1]
    /\ bulbs[2].bulb.enabled = 0
    /\ bulbs[3] = pre[3]

-----------------------------------------------------------------------------
(* Properties of the settings confirm (SpecCalls) *)

\* C29: after a settings confirm whose brightness buffer parses to v and all
\* of whose requests succeeded, every selected device caches a brightness
\* within the epsilon of v, wherever the cursor is and whatever is selected.
C29_SelectedGetBrightness ==
    (/\ op.name = "set_color_and_brightness"
     /\ ParseF32(op.brightness).ok
     /\ \A k \in DOMAIN reqs : Succeeded(reqs[k])) =>
        \A i \in DOMAIN bulbs :
            bulbs[i].selected =>
                Abs(bulbs[i].bulb.brightness - ParseF32(op.brightness).val)
                    <= EPSILON

-----------------------------------------------------------------------------
(* Properties of the duration of discovery (SpecDiscover) *)

\* C23: a discovery call ends within the timeout in total: at every moment
\* of the receive loop, and when it returns, no more than Timeout has
\* passed since the ping, however many datagrams arrived.
C23_DiscoveryWithinTimeout ==
    dpc \in {"recv", "done"} => elapsed <= Timeout

-----------------------------------------------------------------------------
(* Properties of the command line run (SpecCli) *)

CliActions == <<"brightness", "color", "power", "status">>

\* the actions the options of the run c ask for, in the order of CliActions
Requested(c) ==
    SelectSeq(CliActions,
              LAMBDA a : CASE a = "brightness" -> c.brightness.some
                           [] a = "color" -> c.color.some
                           [] a = "power" -> c.power.some
                           [] a = "status" -> c.status)

RECURSIVE RequestsOf(_)
\* the requests of the blocks ran, one after another
RequestsOf(ran) ==
    IF ran = <<>> THEN <<>> ELSE ran[1].reqs \o RequestsOf(Tail(ran))

\* the verbs a block may send
VerbsOf(action) ==
    CASE action = "brightness" -> {"brightness"}
      [] action = "color" -> {"color"}
      [] action = "power" -> {"status", "on", "off"}
      [] action = "status" -> {"status"}

\* C21: a run whose device list is empty fails, and so does a run that asks
\* for no action; neither sends a request to any device.
C21_NeedsDevicesAndAction ==
    cli.at # "idle" =>
        /\ bulbs = <<>> =>
               /\ cli.at = "end"
               /\ reqs = <<>>
               /\ \/ res = Err("no devices found", <<>>)
                  \/ cli.discover /\ res = Err("io", <<>>)
        /\ Requested(cli) = <<>> =>
               /\ reqs = <<>>
               /\ cli.at = "end" =>
                      \/ res = Err("nothing to do", <<>>) /\ bulbs # <<>>
                      \/ res = Err("no devices found", <<>>) /\ bulbs = <<>>
                      \/ cli.discover /\ res = Err("io", <<>>)

C21_Witness ==
    /\ cli.at = "end"
    /\ bulbs = <<>>
    /\ cli.discover
    /\ cli.status
    /\ cli.power = Some("On")
    /\ res = Err("no devices found", <<>>)
    /\ reqs = <<>>

\* C22: the blocks that ran are the first of the requested actions, in the
\* order brightness, color, power, status, none left out; every one but the
\* last succeeded; the requests made are theirs, in that order; when the last
\* one failed the run has ended with the error of its last request and no
\* later action made a request; a run that ended well ran them all.
C22_ActionsInOrderFailFast ==
    cli.at # "idle" =>
        LET req == Requested(cli)
            n == Len(cli.ran)
        IN  /\ n <= Len(req)
            /\ \A k \in 1 .. n :
                   /\ cli.ran[k].action = req[k]
                   /\ k < n => cli.ran[k].ok
                   /\ \A m \in DOMAIN cli.ran[k].reqs :
                          cli.ran[k].reqs[m].verb \in VerbsOf(req[k])
            /\ reqs = RequestsOf(cli.ran)
            /\ (n > 0 /\ ~cli.ran[n].ok) =>
                   /\ cli.at = "end"
                   /\ reqs # <<>>
                   /\ ~Succeeded(reqs[Len(reqs)])
                   /\ res = ErrorOf(reqs[Len(reqs)])
            /\ (cli.at = "end" /\ res.ok) =>
                   /\ n = Len(req)
                   /\ \A k \in 1 .. n : cli.ran[k].ok

C22_Witness ==
    /\ cli.at = "end"
    /\ Requested(cli) = CliActions
    /\ Len(cli.ran) = 2
    /\ cli.ran[1].ok
    /\ cli.ran[1].reqs # <<>>
    /\ ~cli.ran[2].ok
    /\ Len(cli.ran[2].reqs) = 2
    /\ ~res.ok

\* the requests of xs with one of the verbs vs
WithVerb(xs, vs) == SelectSeq(xs, LAMBDA x : x.verb \in vs)

\* C26: the power action `toggle` of a run fetches the status of every
\* selected device first: if a fetch fails, no power command is sent; if all
\* succeed, every command comes after every fetch and is off when the
\* enabled value just fetched from the first selected device is 1, and on
\* otherwise, whatever the cache held before.
C26_ToggleAfterRefresh ==
    \A k \in (IF cli.at = "idle" THEN {} ELSE DOMAIN cli.ran) :
        (cli.ran[k].action = "power" /\ cli.power = Some("Toggle")) =>
            LET xs == cli.ran[k].reqs
                fetches == WithVerb(xs, {"status"})
                commands == WithVerb(xs, {"on", "off"})
            IN  /\ xs = fetches \o commands
                /\ (\E m \in DOMAIN fetches : ~Succeeded(fetches[m])) =>
                       commands = <<>>
                /\ (\A m \in DOMAIN fetches : Succeeded(fetches[m])) =>
                       /\ Len(fetches) = Len(SelectedOf(bulbs))
                       /\ fetches = <<>> => commands = <<>>
                       /\ \A m \in DOMAIN commands :
                              commands[m].verb =
                                  IF from_str(fetches[1].out.body).enabled = 1
                                  THEN "off" ELSE "on"
                /\ cli.ran[k].ok => Len(commands) = Len(SelectedOf(bulbs))

C26_Witness ==
    /\ cli.at = "end"
    /\ res.ok
    /\ cli.power = Some("Toggle")
    /\ cli.addrs # <<>>
    /\ ~cli.brightness.some
    /\ ~cli.color.some
    /\ Len(reqs) = 2 * Len(bulbs)
    /\ reqs[Len(reqs)].verb = "off"
    /\ \A i \in DOMAIN bulbs : bulbs[i].bulb.enabled = 0

====
